---- MODULE Spec2Model ----
(***************************************************************************)
(* A model of the car-reliability prediction pipeline:                     *)
(*   src/src/features/preprocess.py   cost projector, timeline synthesizer,*)
(*                                    feature transform builder            *)
(*   src/src/models/predict.py        inference engine                     *)
(*   src/src/models/train.py          training protocol                    *)
(*   src/src/data/load_data.py        dataset loading                      *)
(*   src/src/nlp/sentiment.py         sentiment scorer                     *)
(*   src/src/nlp/complaint_analysis.py complaint pattern miner             *)
(*                                                                         *)
(* Numbers.  A probability or risk score is an integer number of           *)
(* hundredths (65 is 0.65).  Money is an integer number of ticks, 130000   *)
(* ticks to the monetary unit (1300 to the cent), so that every amount the *)
(* cost projector computes, 12000 / 26 * 3.5 included, is an exact         *)
(* integer and rounding to two decimals is decided on the exact value.     *)
(* Python rounds the binary float, which at an exact decimal half-cent     *)
(* lies just above or just below it (750 * 1.0315 gives 773.63, 750 *      *)
(* 0.9895 gives 742.12): halfUp is the side it falls on in this run.       *)
(* Returned money is in cents.                                             *)
(***************************************************************************)
EXTENDS Integers, Sequences, FiniteSets, TLC

VARIABLES
    row,        \* the pandas row handed to the cost projector / timeline synthesizer
    cost,       \* what compute_cost_of_ownership returned for row (<<>> before the call)
    timeline,   \* what generate_maintenance_timeline returned for row
    called,     \* which of the pure functions have been applied to row
    halfUp,     \* which side of an exact decimal half-cent the binary float of this run falls on
    band,       \* what _to_risk_band returned for row's risk score ("" before)
    text,       \* the string handed to score_text, as a sequence of characters and letter runs
    sentiment,  \* what score_text returned for text (<<>> before the call)
    corpus,     \* df["complaint_text"] handed to identify_common_failure_patterns: a sequence of documents
    config,     \* the FeatureConfig handed to build_feature_transformer; None fields are absent
    transformer,\* what build_feature_transformer returned or raised (<<>> before the call)
    dataset,    \* the CSV at DATA_PATH: whether it exists, its columns, its rows' outcome labels
    pc,         \* where ReliabilityModelTrainer.train stands in the training protocol
    df,         \* the frame load_dataset returned (<<>> before)
    X_train,    \* the rows of the training partition ({} before the split)
    X_test,     \* the rows of the holdout partition ({} before the split)
    trainerPipeline, \* self.pipeline of the trainer (<<>> is None)
    metrics,    \* the metrics of the evaluation (<<>> before)
    error,      \* the exception that ended train ("" when none)
    artifact,   \* the file at MODEL_PATH (<<>> when there is none)
    report,     \* reports/training_metrics.json (<<>> when there is none)
    predictor,  \* the ReliabilityPredictor the caller holds (<<>> when none was constructed)
    ctorError,  \* the exception of the last ReliabilityPredictor() call ("" when it returned)
    constructions, \* how many times ReliabilityPredictor() was called
    lastResult, \* what the last predict or compare call returned (<<>> before)
    mined,      \* how identify_common_failure_patterns ended: the list returned or the error raised (<<>> before)
    held,       \* the record dicts the engine's callers hold, by the record each was created as
    calls,      \* per calling thread, the predict or compare call it is in and that call's locals
    returned,   \* per record, the PredictionResults predict calls have returned for it
    compared    \* the compare calls that returned: their two records and what they returned

calcVars == <<row, cost, timeline, called, halfUp, band>>
textVars == <<text, sentiment>>
mineVars == <<corpus, mined>>
buildVars == <<config, transformer>>
trainVars == <<dataset, pc, df, X_train, X_test, trainerPipeline, metrics, error>>
diskVars == <<artifact, report>>
predictVars == <<predictor, ctorError, constructions, lastResult>>
serveVars == <<trainVars, diskVars, predictVars>>
inferVars == <<held, calls, returned, compared>>
vars == <<calcVars, textVars, mineVars, buildVars, serveVars, inferVars>>

(***************************************************************************)
(* Bounds of the model.                                                    *)
(***************************************************************************)
RiskMargin == 3         \* risk scores range over -0.03 .. 1.03
MaxRows == 8                \* a dataset has at most MaxRows rows
MaxConstructions == 2       \* ReliabilityPredictor() is called at most MaxConstructions times
MaxDocs == 3            \* a corpus has at most MaxDocs documents
MaxDocLen == 3          \* a document has at most MaxDocLen words
MaxTextLen == 4         \* a text has at most MaxTextLen characters / letter runs
MaxCostSteps == 3       \* prior-year costs range over 0, CostStep, .., MaxCostSteps * CostStep
CostStep == 613         \* monetary units between two prior-year costs of the model
TotalStep == 2917       \* monetary units between two prior-year total costs

(***************************************************************************)
(* preprocess.py: constants                                                *)
(***************************************************************************)
TicksPerCent == 13 * 100
TicksPerUnit == 100 * TicksPerCent

COST_FACTORS ==
    [a \in {"oil change", "brake pad replacement", "software update",
            "battery inspection", "tire rotation"} |->
        CASE a = "oil change" -> 120
          [] a = "brake pad replacement" -> 380
          [] a = "software update" -> 160
          [] a = "battery inspection" -> 90
          [] a = "tire rotation" -> 75]

\* row.get(key, default) of a pandas Series / dict.get
Get(r, key, default) == IF key \in DOMAIN r THEN r[key] ELSE default

Max(a, b) == IF a >= b THEN a ELSE b
Min(a, b) == IF a <= b THEN a ELSE b

\* round(x, 2) of an amount of ticks, in cents; at an exact half-cent the
\* float's side (halfUp) decides
Round2(ticks) ==
    LET q == ticks \div TicksPerCent
        r == ticks % TicksPerCent
    IN  IF 2 * r > TicksPerCent THEN q + 1
        ELSE IF 2 * r < TicksPerCent THEN q
        ELSE IF halfUp THEN q + 1 ELSE q

annual_mileage == 12000
fuel_price_tenths == 35             \* fuel_price_per_gallon = 3.5
efficiency_mpg == 26
DefaultBase == 150                  \* COST_FACTORS.get(..., 150)
DefaultMaintenanceCost == 600       \* row.get("maintenance_cost_last_year", 600)
DefaultTotalCost == 1500            \* row.get("total_cost_last_year", 1500)
DefaultCostRisk == 20               \* row.get("risk_score", 0.2)
DepreciationFloor == 500
RiskCostPerMille == 35              \* 0.35 * risk, risk in hundredths, over 10000
DepreciationPct == 12               \* 0.12 * total_cost_last_year

\* COST_FACTORS.get(row.get("maintenance_action", ""), 150)
BaseMaintenance(r) ==
    LET a == Get(r, "maintenance_action", "")
    IN  IF a \in DOMAIN COST_FACTORS THEN COST_FACTORS[a] ELSE DefaultBase

\* MaintenanceTicks with the prior-year maintenance cost left out of the sum
MaintenanceTicksBaseOnly(r) ==
    BaseMaintenance(r)
        * (10000 + RiskCostPerMille * Get(r, "risk_score", DefaultCostRisk))
        * (TicksPerUnit \div 10000)

\* (row.get("maintenance_cost_last_year", 600) + base_maintenance) * risk_multiplier, in ticks
MaintenanceTicks(r) ==
    (Get(r, "maintenance_cost_last_year", DefaultMaintenanceCost) + BaseMaintenance(r))
        * (10000 + RiskCostPerMille * Get(r, "risk_score", DefaultCostRisk))
        * (TicksPerUnit \div 10000)

\* (annual_mileage / efficiency_mpg) * fuel_price_per_gallon, in ticks
FuelTicks == annual_mileage * fuel_price_tenths * (TicksPerUnit \div (efficiency_mpg * 10))

\* max(500, 0.12 * row.get("total_cost_last_year", 1500)), in ticks
DepreciationTicks(r) ==
    Max(DepreciationFloor * TicksPerUnit,
        DepreciationPct * Get(r, "total_cost_last_year", DefaultTotalCost) * (TicksPerUnit \div 100))

\* total_projection: one rounding of the sum of the three unrounded amounts
TotalTicks(r) == MaintenanceTicks(r) + FuelTicks + DepreciationTicks(r)

compute_cost_of_ownership(r) ==
    [ maintenance_projection |-> Round2(MaintenanceTicks(r)),
      fuel_cost_projection   |-> Round2(FuelTicks),
      depreciation_estimate  |-> Round2(DepreciationTicks(r)),
      total_projection       |-> Round2(TotalTicks(r)) ]

(***************************************************************************)
(* preprocess.py: generate_maintenance_timeline.  A timeframe string       *)
(* f"{n} months" is the pair [n, "months"]; "Next 30 days" is [30, "days"].*)
(***************************************************************************)
base_interval == 6
DefaultTimelineRisk == 25           \* row.get("risk_score", 0.25)
MaxCompressionRisk == 95            \* min(.., 0.95)
CompressionPerMille == 4            \* * 0.4, risk in hundredths, over 1000
MinInterval == 3                    \* max(3, ..)
SpecialistRisk == 60                \* risk_score > 0.6
SpecialistDays == 30                \* "Next 30 days"

\* int(base_interval * compression): truncation of a non-negative value
IntervalMonths(risk) ==
    LET clamped == Min(Max(risk, 0), MaxCompressionRisk)
        compressionPerMille == 1000 - clamped * CompressionPerMille
    IN  Max(MinInterval, (base_interval * compressionPerMille) \div 1000)

Months(n) == [n |-> n, unit |-> "months"]
Days(n) == [n |-> n, unit |-> "days"]

SpecialistMilestone ==
    [timeframe |-> Days(SpecialistDays),
     action |-> "Schedule reliability assessment with specialist"]

\* a timeline whose specialist milestone starts at the threshold (>= for >)
TimelineSpecialistAtThreshold(r) ==
    LET risk_score == Get(r, "risk_score", DefaultTimelineRisk)
        interval_months == IntervalMonths(risk_score)
        milestones ==
            << [timeframe |-> Months(interval_months),
                action |-> "Comprehensive inspection & fluid checks"],
               [timeframe |-> Months(interval_months * 2),
                action |-> "Predictive component diagnostics"],
               [timeframe |-> Months(interval_months * 3),
                action |-> "System software updates & alignment"] >>
    IN  IF risk_score >= SpecialistRisk
        THEN Append(milestones, SpecialistMilestone)
        ELSE milestones

generate_maintenance_timeline(r) ==
    LET risk_score == Get(r, "risk_score", DefaultTimelineRisk)
        interval_months == IntervalMonths(risk_score)
        milestones ==
            << [timeframe |-> Months(interval_months),
                action |-> "Comprehensive inspection & fluid checks"],
               [timeframe |-> Months(interval_months * 2),
                action |-> "Predictive component diagnostics"],
               [timeframe |-> Months(interval_months * 3),
                action |-> "System software updates & alignment"] >>
    IN  IF risk_score > SpecialistRisk
        THEN Append(milestones, SpecialistMilestone)
        ELSE milestones

(***************************************************************************)
(* predict.py: _to_risk_band                                               *)
(***************************************************************************)
HighThreshold == 65
ModerateThreshold == 40

\* _to_risk_band with the boundaries excluded (> for >=)
ToRiskBandStrict(probability) ==
    IF probability > HighThreshold THEN "High"
    ELSE IF probability > ModerateThreshold THEN "Moderate"
    ELSE "Low"

_to_risk_band(probability) ==
    IF probability >= HighThreshold THEN "High"
    ELSE IF probability >= ModerateThreshold THEN "Moderate"
    ELSE "Low"

(***************************************************************************)
(* The rows the pure functions are applied to: every field may be absent.  *)
(***************************************************************************)
Opt(key, values) == {<<>>} \cup {(key :> v) : v \in values}

ActionValues == DOMAIN COST_FACTORS \cup {"coolant flush"}
CostValues == {k * CostStep : k \in 0..MaxCostSteps}
TotalValues == {k * TotalStep : k \in 0..MaxCostSteps}
RiskValues == (0 - RiskMargin)..(100 + RiskMargin)

Rows ==
    { a @@ m @@ t @@ p :
        a \in Opt("maintenance_action", ActionValues),
        m \in Opt("maintenance_cost_last_year", CostValues),
        t \in Opt("total_cost_last_year", TotalValues),
        p \in Opt("risk_score", RiskValues) }

\* no text is being scored
TextIdle == text = <<>> /\ sentiment = <<>>

\* no corpus is being mined
MineIdle == corpus = <<>> /\ mined = <<>>

\* no feature transform is being built
BuildIdle == config = <<>> /\ transformer = <<>>

\* no training run, no artifact on disk, no inference engine
ServeIdle ==
    /\ dataset = <<>> /\ pc = "Unloaded" /\ df = <<>> /\ X_train = {} /\ X_test = {}
    /\ trainerPipeline = <<>> /\ metrics = <<>> /\ error = ""
    /\ artifact = <<>> /\ report = <<>>
    /\ predictor = <<>> /\ ctorError = "" /\ constructions = 0 /\ lastResult = <<>>

\* no caller is using an inference engine
InferIdle == held = <<>> /\ calls = <<>> /\ returned = <<>> /\ compared = {}

CalcInit ==
    /\ TextIdle
    /\ MineIdle
    /\ BuildIdle
    /\ ServeIdle
    /\ InferIdle
    /\ row \in Rows
    /\ cost = <<>>
    /\ timeline = <<>>
    /\ band = ""
    /\ called = {}
    /\ halfUp \in BOOLEAN

\* compute_cost_of_ownership(row)
CostOfOwnership ==
    /\ "cost" \notin called
    /\ cost' = compute_cost_of_ownership(row)
    /\ called' = called \cup {"cost"}
    /\ UNCHANGED <<row, timeline, band, halfUp, textVars, mineVars, buildVars, serveVars, inferVars>>

\* generate_maintenance_timeline(row)
MaintenanceTimeline ==
    /\ "timeline" \notin called
    /\ timeline' = generate_maintenance_timeline(row)
    /\ called' = called \cup {"timeline"}
    /\ UNCHANGED <<row, cost, band, halfUp, textVars, mineVars, buildVars, serveVars, inferVars>>

\* ReliabilityPredictor._to_risk_band(row["risk_score"])
RiskBand ==
    /\ "band" \notin called
    /\ "risk_score" \in DOMAIN row
    /\ band' = _to_risk_band(row["risk_score"])
    /\ called' = called \cup {"band"}
    /\ UNCHANGED <<row, cost, timeline, halfUp, textVars, mineVars, buildVars, serveVars, inferVars>>

CalcNext == CostOfOwnership \/ MaintenanceTimeline \/ RiskBand

SpecCalc == CalcInit /\ [][CalcNext]_vars

(***************************************************************************)
(* sentiment.py: score_text.  A text is a sequence whose elements are      *)
(* single characters (blank, punctuation) or maximal runs of letters; a    *)
(* token is the sub-sequence between blanks.                               *)
(***************************************************************************)
POSITIVE_WORDS ==
    {"reliable", "smooth", "satisfied", "comfortable", "quiet", "refined", "responsive"}

NEGATIVE_WORDS ==
    {"frustrating", "disappointed", "unsafe", "annoying", "expensive", "noisy",
     "rough", "lag", "stall", "failure"}

Whitespace == {" "}
StripChars == {".", ",", "!", "?"}

\* str.lower() on a letter run; characters without case are unchanged
LowerPiece(c) ==
    CASE c = "Reliable" -> "reliable"
      [] c = "ANNOYING" -> "annoying"
      [] OTHER -> c

\* text.split(): the maximal runs of non-blank elements
RECURSIVE SplitFrom(_, _, _)
SplitFrom(t, i, cur) ==
    IF i > Len(t) THEN (IF cur = <<>> THEN <<>> ELSE <<cur>>)
    ELSE IF t[i] \in Whitespace
         THEN (IF cur = <<>> THEN <<>> ELSE <<cur>>) \o SplitFrom(t, i + 1, <<>>)
         ELSE SplitFrom(t, i + 1, Append(cur, t[i]))

Split(t) == SplitFrom(t, 1, <<>>)

RECURSIVE LStrip(_, _)
LStrip(w, chars) ==
    IF w # <<>> /\ Head(w) \in chars THEN LStrip(Tail(w), chars) ELSE w

RECURSIVE RStrip(_, _)
RStrip(w, chars) ==
    IF w # <<>> /\ w[Len(w)] \in chars THEN RStrip(SubSeq(w, 1, Len(w) - 1), chars) ELSE w

\* str.strip(chars): leading and trailing characters of chars removed
Strip(w, chars) == RStrip(LStrip(w, chars), chars)

Lower(w) == [i \in DOMAIN w |-> LowerPiece(w[i])]

\* a normalised token is a word of the lexicon
InLexicon(w, lexicon) == Len(w) = 1 /\ w[1] \in lexicon

\* word.strip(".,!?").lower() for word in text.split(), collected in a set
NormalisedWordSet(t) ==
    LET tokens == Split(t)
    IN  {Lower(Strip(tokens[i], StripChars)) : i \in DOMAIN tokens}

score_text(t) ==
    LET words == NormalisedWordSet(t)
        pos == Cardinality({w \in words : InLexicon(w, POSITIVE_WORDS)})
        neg == Cardinality({w \in words : InLexicon(w, NEGATIVE_WORDS)})
    IN  [positive |-> pos, negative |-> neg, net |-> pos - neg]

TextAlphabet == {" ", ".", "!", ";", "Reliable", "reliable", "ANNOYING", "car"}

RECURSIVE SeqsUpTo(_, _)
SeqsUpTo(S, n) ==
    IF n = 0 THEN {<<>>}
    ELSE LET shorter == SeqsUpTo(S, n - 1)
         IN  shorter \cup {Append(q, x) : q \in shorter, x \in S}

Texts == SeqsUpTo(TextAlphabet, MaxTextLen)

\* no row is being processed by the cost projector or the timeline synthesizer
CalcIdle ==
    /\ row = <<>> /\ cost = <<>> /\ timeline = <<>>
    /\ band = "" /\ called = {} /\ halfUp = FALSE

TextInit ==
    /\ CalcIdle
    /\ MineIdle
    /\ BuildIdle
    /\ ServeIdle
    /\ InferIdle
    /\ text \in Texts
    /\ sentiment = <<>>

\* score_text(text)
ScoreText ==
    /\ sentiment = <<>>
    /\ sentiment' = score_text(text)
    /\ UNCHANGED <<text, calcVars, mineVars, buildVars, serveVars, inferVars>>

TextNext == ScoreText

SpecText == TextInit /\ [][TextNext]_vars

(***************************************************************************)
(* complaint_analysis.py: identify_common_failure_patterns.  A document is *)
(* the sequence of its lower-case word tokens.  CountVectorizer(ngram_range*)
(* =(2, 3), stop_words="english", min_df=2).fit_transform is modelled as   *)
(* scikit-learn implements it: stop words are dropped, the 2- and 3-word   *)
(* phrases of each document are counted, the terms found in fewer than     *)
(* min_df documents are pruned, and ValueError is raised when the          *)
(* vocabulary is empty, when the corpus has fewer than min_df documents    *)
(* (max_df = 1.0 is then fewer documents than min_df) and when pruning     *)
(* leaves no term.  The weight severity.mean() / max(severity.std(), 0.5)  *)
(* is one factor for the whole corpus, positive for a corpus with positive *)
(* severity scores, so the order of the phrases is the order of their      *)
(* counts; a returned entry carries the phrase and its count.              *)
(***************************************************************************)
min_df == 2
top_n == 8
NgramMin == 2
NgramMax == 3

StopWords == {"the"}
Vocabulary == {"engine", "stalls", "the"}

\* alphabetical order of the words of the model
WordRank(w) == CASE w = "engine" -> 1 [] w = "stalls" -> 2 [] OTHER -> 3

\* the tokens CountVectorizer keeps of a document
RECURSIVE DropStopWords(_)
DropStopWords(doc) ==
    IF doc = <<>> THEN <<>>
    ELSE IF Head(doc) \in StopWords THEN DropStopWords(Tail(doc))
    ELSE <<Head(doc)>> \o DropStopWords(Tail(doc))

\* the start positions of the n-word phrases of a token sequence
NgramStarts(tokens, n) == 1..(Len(tokens) - n + 1)

\* the phrases (2- and 3-word) of a document
Phrases(doc) ==
    LET tokens == DropStopWords(doc)
    IN  UNION {{SubSeq(tokens, i, i + n - 1) : i \in NgramStarts(tokens, n)} :
                    n \in NgramMin..NgramMax}

\* how often a phrase occurs in a document
Occurrences(doc, phrase) ==
    LET tokens == DropStopWords(doc)
    IN  Cardinality({i \in NgramStarts(tokens, Len(phrase)) :
                        SubSeq(tokens, i, i + Len(phrase) - 1) = phrase})

RECURSIVE SumOver(_, _, _)
SumOver(docs, phrase, i) ==
    IF i > Len(docs) THEN 0
    ELSE Occurrences(docs[i], phrase) + SumOver(docs, phrase, i + 1)

\* _count_vocab: every phrase of the corpus
CountVocab(docs) == UNION {Phrases(docs[i]) : i \in DOMAIN docs}

DocumentFrequency(docs, phrase) ==
    Cardinality({i \in DOMAIN docs : phrase \in Phrases(docs[i])})

\* _limit_features: the terms found in at least min_df documents
LimitFeatures(docs) == {ph \in CountVocab(docs) : DocumentFrequency(docs, ph) >= min_df}

\* _tokenize_phrases: the Counter of the kept phrases, or the ValueError raised
_tokenize_phrases(docs) ==
    IF CountVocab(docs) = {}
        THEN [raised |-> "ValueError: empty vocabulary", counter |-> <<>>]
    ELSE IF Len(docs) < min_df
        THEN [raised |-> "ValueError: max_df corresponds to < documents than min_df",
              counter |-> <<>>]
    ELSE IF LimitFeatures(docs) = {}
        THEN [raised |-> "ValueError: After pruning, no terms remain", counter |-> <<>>]
    ELSE [raised |-> "",
          counter |-> [ph \in LimitFeatures(docs) |-> SumOver(docs, ph, 1)]]

\* string order of two phrases of the vocabulary
RECURSIVE PhraseBefore(_, _)
PhraseBefore(a, b) ==
    IF a = <<>> THEN b # <<>>
    ELSE IF b = <<>> THEN FALSE
    ELSE IF WordRank(Head(a)) # WordRank(Head(b)) THEN WordRank(Head(a)) < WordRank(Head(b))
    ELSE PhraseBefore(Tail(a), Tail(b))

\* Counter.most_common: by count, descending; equal counts in insertion order,
\* which is the alphabetical order of get_feature_names_out
RECURSIVE MostCommon(_, _)
MostCommon(counter, left) ==
    IF left = {} THEN <<>>
    ELSE LET first == CHOOSE x \in left :
                        \A y \in left \ {x} :
                            \/ counter[x] > counter[y]
                            \/ (counter[x] = counter[y] /\ PhraseBefore(x, y))
         IN  <<[pattern |-> first, count |-> counter[first]]>>
                \o MostCommon(counter, left \ {first})

Take(q, n) == SubSeq(q, 1, Min(n, Len(q)))

identify_common_failure_patterns(docs) ==
    IF docs = <<>> THEN [raised |-> "", value |-> <<>>]
    ELSE LET tokenized == _tokenize_phrases(docs)
         IN  IF tokenized.raised # ""
             THEN [raised |-> tokenized.raised, value |-> <<>>]
             ELSE [raised |-> "",
                   value |-> Take(MostCommon(tokenized.counter, DOMAIN tokenized.counter),
                                  top_n)]

Documents == SeqsUpTo(Vocabulary, MaxDocLen)
Corpora == SeqsUpTo(Documents, MaxDocs)

MineInit ==
    /\ CalcIdle
    /\ TextIdle
    /\ BuildIdle
    /\ ServeIdle
    /\ InferIdle
    /\ corpus \in Corpora
    /\ mined = <<>>

\* identify_common_failure_patterns(df)
IdentifyPatterns ==
    /\ mined = <<>>
    /\ mined' = identify_common_failure_patterns(corpus)
    /\ UNCHANGED <<corpus, calcVars, textVars, buildVars, serveVars, inferVars>>

MineNext == IdentifyPatterns

SpecMine == MineInit /\ [][MineNext]_vars

(***************************************************************************)
(* preprocess.py: FeatureConfig and build_feature_transformer.  A          *)
(* FeatureConfig is a function from its field names to their values; a     *)
(* field holding None is left out of its domain.  The two tuples are sets  *)
(* of column names.                                                        *)
(***************************************************************************)
DEFAULT_FEATURE_CONFIG ==
    [ numeric_features |->
        {"mileage", "avg_trip_length_miles", "maintenance_events", "past_failures",
         "severity_score", "car_age", "total_cost_last_year"},
      categorical_features |-> {"make", "model", "maintenance_action"},
      text_feature |-> "complaint_text" ]

\* list(None) raises TypeError; nothing else is examined
build_feature_transformer(cfg) ==
    IF "numeric_features" \notin DOMAIN cfg \/ "categorical_features" \notin DOMAIN cfg
    THEN [raised |-> "TypeError: 'NoneType' object is not iterable", transformers |-> <<>>]
    ELSE [raised |-> "",
          transformers |->
            << [name |-> "num", transformer |-> "StandardScaler",
                columns |-> cfg["numeric_features"]],
               [name |-> "cat", transformer |-> "OneHotEncoder",
                columns |-> cfg["categorical_features"]],
               [name |-> "text", transformer |-> "TfidfVectorizer",
                columns |-> IF "text_feature" \in DOMAIN cfg
                                THEN {cfg["text_feature"]} ELSE {}] >>]

ConfigColumns == {"mileage", "make", "complaint_text"}

FeatureConfigs ==
    { n @@ c @@ t :
        n \in Opt("numeric_features", SUBSET ConfigColumns),
        c \in Opt("categorical_features", SUBSET ConfigColumns),
        t \in Opt("text_feature", ConfigColumns) }

BuildInit ==
    /\ CalcIdle
    /\ TextIdle
    /\ MineIdle
    /\ ServeIdle
    /\ InferIdle
    /\ config \in FeatureConfigs
    /\ transformer = <<>>

\* build_feature_transformer(config)
BuildFeatureTransformer ==
    /\ transformer = <<>>
    /\ transformer' = build_feature_transformer(config)
    /\ UNCHANGED <<config, calcVars, textVars, mineVars, serveVars, inferVars>>

BuildNext == BuildFeatureTransformer

SpecBuild == BuildInit /\ [][BuildNext]_vars

(***************************************************************************)
(* load_data.py and train.py: the training protocol.  A dataset is the CSV *)
(* file: whether it exists, its header and, per row, the outcome label.    *)
(* A frame is its columns and its rows (row numbers); the labels stay with *)
(* the dataset.  scikit-learn's train_test_split, ColumnTransformer.fit,   *)
(* GradientBoostingClassifier.fit and roc_auc_score are modelled by what   *)
(* they check and raise; the fixed random_state makes a split one of the   *)
(* partitions the stratified allocation allows.                            *)
(***************************************************************************)
RawColumns ==
    {"make", "model", "year", "mileage", "avg_trip_length_miles", "maintenance_events",
     "past_failures", "severity_score", "maintenance_cost_last_year",
     "fuel_cost_last_year", "complaint_text", "maintenance_action", "has_mechanical_issue"}

\* the columns engineer_domain_features reads with [] (KeyError when absent)
EngineerInputs ==
    {"year", "maintenance_cost_last_year", "fuel_cost_last_year", "avg_trip_length_miles"}

EngineeredColumns ==
    {"car_age", "total_cost_last_year", "estimated_next_year_cost", "ownership_cost_score"}

SentimentColumns == {"sentiment_positive", "sentiment_negative", "sentiment_net"}

\* load_reliability_data: FileNotFoundError for a missing file; pd.read_csv
\* raises EmptyDataError for a file without a header
load_reliability_data(ds) ==
    IF ~ds.exists
        THEN [raised |-> "FileNotFoundError: Dataset not found", frame |-> <<>>]
    ELSE IF ds.columns = {}
        THEN [raised |-> "EmptyDataError: No columns to parse from file", frame |-> <<>>]
    ELSE [raised |-> "", frame |-> [columns |-> ds.columns, rows |-> DOMAIN ds.labels]]

\* ReliabilityModelTrainer.load_dataset: load, engineer, enrich
load_dataset(ds) ==
    LET loaded == load_reliability_data(ds)
    IN  IF loaded.raised # "" THEN loaded
        ELSE IF ~(EngineerInputs \subseteq loaded.frame.columns)
            THEN [raised |-> "KeyError: engineer_domain_features", frame |-> <<>>]
        ELSE IF "complaint_text" \notin loaded.frame.columns
            THEN [raised |-> "KeyError: 'complaint_text'", frame |-> <<>>]
        ELSE [raised |-> "",
              frame |-> [loaded.frame EXCEPT
                            !.columns = @ \cup EngineeredColumns \cup SentimentColumns]]

\* the rows of a class, the number of rows of each class
ClassRows(ds, rows, c) == {i \in rows : ds.labels[i] = c}
ClassCounts(ds, rows) ==
    <<Cardinality(ClassRows(ds, rows, 0)), Cardinality(ClassRows(ds, rows, 1))>>

\* ceil(0.25 * n), and the rest
TestSize(n) == (n + 3) \div 4
TrainSize(n) == n - TestSize(n)

\* sklearn's _approximate_mode for two classes: k draws in proportion to the
\* class counts, the odd draw to the class with the larger remainder, to
\* either at a tie
ApproximateMode(counts, k) ==
    LET total == counts[1] + counts[2]
        f0 == (k * counts[1]) \div total
        f1 == (k * counts[2]) \div total
        r0 == (k * counts[1]) % total
        r1 == (k * counts[2]) % total
    IN  IF f0 + f1 = k THEN {<<f0, f1>>}
        ELSE IF r0 > r1 THEN {<<f0 + 1, f1>>}
        ELSE IF r1 > r0 THEN {<<f0, f1 + 1>>}
        ELSE {<<f0 + 1, f1>>, <<f0, f1 + 1>>}

NumClasses(counts) == Cardinality({c \in 1..2 : counts[c] > 0})

\* what train_test_split(test_size=0.25, stratify=target) raises for a frame
SplitError(ds, frame) ==
    LET n == Cardinality(frame.rows)
        counts == ClassCounts(ds, frame.rows)
    IN  IF "has_mechanical_issue" \notin frame.columns
            THEN "KeyError: ['has_mechanical_issue'] not found in axis"
        ELSE IF n = 0 \/ TrainSize(n) = 0
            THEN "ValueError: the resulting train set will be empty"
        ELSE IF \E c \in 1..2 : counts[c] = 1
            THEN "ValueError: The least populated class in y has only 1 member"
        ELSE IF TrainSize(n) < NumClasses(counts) \/ TestSize(n) < NumClasses(counts)
            THEN "ValueError: test_size should be greater or equal to the number of classes"
        ELSE ""

\* the first k of a set of rows
FirstRows(rows, k) == {i \in rows : Cardinality({j \in rows : j < i}) < k}

\* alloc[c] rows of each class c.  Which rows of a class the seeded shuffle
\* draws is not modelled: the rows of a class differ in nothing the protocol
\* reads, and the first ones stand for any draw
DrawOfEachClass(ds, rows, alloc) ==
    FirstRows(ClassRows(ds, rows, 0), alloc[1]) \cup FirstRows(ClassRows(ds, rows, 1), alloc[2])

\* the training partitions split_data can return
split_data(ds, frame) ==
    LET n == Cardinality(frame.rows)
        counts == ClassCounts(ds, frame.rows)
    IN  {DrawOfEachClass(ds, frame.rows, a) : a \in ApproximateMode(counts, TrainSize(n))}

\* a fit that takes the columns it finds and skips the ones the frame lacks
MissingConfigColumnsIgnored(columns) == {}

\* the columns of the feature configuration the features frame lacks
MissingConfigColumns(columns) ==
    (DEFAULT_FEATURE_CONFIG.numeric_features \cup DEFAULT_FEATURE_CONFIG.categorical_features
        \cup {DEFAULT_FEATURE_CONFIG.text_feature}) \ columns

\* a fit on the whole frame, holdout rows included
FitRowsWholeFrame(train, test) == train \cup test

\* the rows the pipeline is fitted on
FitRows(train, test) == train

\* what pipeline.fit(X_train, y_train) raises
FitError(ds, columns, rows) ==
    IF MissingConfigColumns(columns) # {}
        THEN "ValueError: A given column is not a column of the dataframe"
    ELSE IF NumClasses(ClassCounts(ds, rows)) < 2
        THEN "ValueError: y contains 1 class"
    ELSE ""

\* what the evaluation raises: roc_auc_score needs both classes in y_test
EvaluateError(ds, rows) ==
    IF NumClasses(ClassCounts(ds, rows)) < 2
        THEN "ValueError: Only one class present in y_true"
    ELSE ""

(***************************************************************************)
(* predict.py: the inference engine.  A fitted pipeline is the run that    *)
(* fitted it, the rows it was fitted on and the probability it gives each  *)
(* record: predict_proba is the classifier's learned function, any of      *)
(* ProbaFunctions.                                                         *)
(***************************************************************************)
CURRENT_YEAR == 2024

\* the records handed to predict and compare; none of their amounts is at an
\* exact half-cent
Records ==
    { [make |-> "Toyota", year |-> 2018, maintenance_action |-> "oil change",
       maintenance_cost_last_year |-> 600, fuel_cost_last_year |-> 1400,
       complaint_text |-> <<"reliable", " ", "car">>],
      [make |-> "Tesla", year |-> 2026, maintenance_action |-> "brake pad replacement",
       maintenance_cost_last_year |-> 400, fuel_cost_last_year |-> 9000,
       complaint_text |-> <<"ANNOYING", "!", " ", "reliable", ".">>] }

ProbaValues == {35, 62, 70}
ProbaFunctions == [Records -> ProbaValues]

\* engineer_domain_features on one record: the columns the cost projector and
\* the timeline read; the two ratio columns enter predict_proba only
engineer_domain_features(record) ==
    [car_age |-> CURRENT_YEAR - record.year,
     total_cost_last_year |->
        record.maintenance_cost_last_year + record.fuel_cost_last_year] @@ record

\* append_sentiment_scores on one record
append_sentiment_scores(frame) ==
    LET scores == score_text(frame.complaint_text)
    IN  [sentiment_positive |-> scores.positive, sentiment_negative |-> scores.negative,
         sentiment_net |-> scores.net] @@ frame

_prepare_frame(record) == append_sentiment_scores(engineer_domain_features(record))

\* _prepare_frame of each record of the model
PreparedFrames == [r \in Records |-> _prepare_frame(r)]

\* ReliabilityPredictor.predict
predict(self, record) ==
    LET frame == PreparedFrames[record]
        proba == self.pipeline.proba[record]
        scored == [risk_score |-> proba] @@ frame
    IN  [probability |-> proba,
         risk_band |-> _to_risk_band(proba),
         cost_projection |-> compute_cost_of_ownership(scored),
         maintenance_timeline |-> generate_maintenance_timeline(scored)]

\* ReliabilityPredictor.compare
compare(self, record_a, record_b) ==
    [car_a |-> predict(self, record_a), car_b |-> predict(self, record_b)]

\* ReliabilityPredictor.__init__ with the file at MODEL_PATH
ReliabilityPredictor(file, id) ==
    IF file = <<>>
    THEN [raised |-> "FileNotFoundError: Model artifact missing. Train the model before predicting.",
          self |-> <<>>]
    ELSE [raised |-> "", self |-> [id |-> id, pipeline |-> file, loads |-> 1]]

\* predict and compare with a joblib.load of MODEL_PATH in every call
SelfAfterCallReloading(self, file) == [self EXCEPT !.pipeline = file, !.loads = 2]

\* the engine after a predict or compare call: the calls assign nothing to self
SelfAfterCall(self, file) == self

(***************************************************************************)
(* One training run and one caller of the inference engine, side by side.  *)
(***************************************************************************)
LabelSeqs == UNION {[1..n -> {0, 1}] : n \in 0..MaxRows}

\* rows in label order: a dataset is told by how many rows of each class it has
SortedLabels == {l \in LabelSeqs : \A i \in 1..(Len(l) - 1) : l[i] <= l[i + 1]}

\* no header at all (an empty file), the full header, the full header less one column
Headers == {{}, RawColumns} \cup {RawColumns \ {c} : c \in RawColumns}

Datasets ==
    {[exists |-> FALSE, columns |-> {}, labels |-> <<>>]}
        \cup {[exists |-> TRUE, columns |-> h, labels |-> IF h = {} THEN <<>> ELSE l] :
                h \in Headers, l \in SortedLabels}

\* the artifact of an earlier training run
EarlierArtifact == [run |-> 0, fittedOn |-> {}, proba |-> [r \in Records |-> 50]]

ServeInit ==
    /\ CalcIdle
    /\ InferIdle
    /\ TextIdle
    /\ MineIdle
    /\ BuildIdle
    /\ dataset \in Datasets
    /\ pc = "Unloaded" /\ df = <<>> /\ X_train = {} /\ X_test = {}
    /\ trainerPipeline = <<>> /\ metrics = <<>> /\ error = ""
    /\ artifact \in {<<>>, EarlierArtifact}
    /\ report = IF artifact = <<>> THEN <<>> ELSE [run |-> 0, evaluatedOn |-> {}]
    /\ predictor = <<>> /\ ctorError = "" /\ constructions = 0 /\ lastResult = <<>>

Abort(exception) ==
    /\ pc' = "Aborted"
    /\ error' = exception

\* train: df = self.load_dataset().  On a frame without rows pandas may raise
\* in append_sentiment_scores (three columns assigned from an empty Series).
LoadDataset ==
    /\ pc = "Unloaded"
    /\ LET loaded == load_dataset(dataset)
       IN  \/ /\ loaded.raised # ""
              /\ Abort(loaded.raised)
              /\ UNCHANGED df
           \/ /\ loaded.raised = ""
              /\ loaded.frame.rows = {}
              /\ Abort("ValueError: Columns must be same length as key")
              /\ UNCHANGED df
           \/ /\ loaded.raised = ""
              /\ pc' = "Loaded"
              /\ df' = loaded.frame
              /\ UNCHANGED error
    /\ UNCHANGED <<dataset, X_train, X_test, trainerPipeline, metrics>>
    /\ UNCHANGED <<diskVars, predictVars, calcVars, textVars, mineVars, buildVars, inferVars>>

\* train: X_train, X_test, y_train, y_test = self.split_data(df)
SplitData ==
    /\ pc = "Loaded"
    /\ \/ /\ SplitError(dataset, df) # ""
          /\ Abort(SplitError(dataset, df))
          /\ UNCHANGED <<X_train, X_test>>
       \/ /\ SplitError(dataset, df) = ""
          /\ \E tr \in split_data(dataset, df) :
                /\ X_train' = tr
                /\ X_test' = df.rows \ tr
          /\ pc' = "Split"
          /\ UNCHANGED error
    /\ UNCHANGED <<dataset, df, trainerPipeline, metrics>>
    /\ UNCHANGED <<diskVars, predictVars, calcVars, textVars, mineVars, buildVars, inferVars>>

\* train: pipeline = self.build_pipeline(); pipeline.fit(X_train, y_train)
Fit ==
    /\ pc = "Split"
    /\ LET rows == FitRows(X_train, X_test)
           columns == df.columns \ {"has_mechanical_issue"}
           unfit == [run |-> 1, fittedOn |-> {},
                     steps |-> build_feature_transformer(DEFAULT_FEATURE_CONFIG).transformers]
       IN  \/ /\ FitError(dataset, columns, rows) # ""
              /\ Abort(FitError(dataset, columns, rows))
              /\ trainerPipeline' = unfit
           \/ /\ FitError(dataset, columns, rows) = ""
              /\ \E f \in ProbaFunctions :
                    trainerPipeline' = [run |-> 1, fittedOn |-> rows, proba |-> f]
              /\ pc' = "Fitted"
              /\ UNCHANGED error
    /\ UNCHANGED <<dataset, df, X_train, X_test, metrics>>
    /\ UNCHANGED <<diskVars, predictVars, calcVars, textVars, mineVars, buildVars, inferVars>>

\* train: predictions, probabilities, classification_report, roc_auc_score, metrics
Evaluate ==
    /\ pc = "Fitted"
    /\ \/ /\ EvaluateError(dataset, X_test) # ""
          /\ Abort(EvaluateError(dataset, X_test))
          /\ UNCHANGED metrics
       \/ /\ EvaluateError(dataset, X_test) = ""
          /\ metrics' = [run |-> 1, evaluatedOn |-> X_test]
          /\ pc' = "Evaluated"
          /\ UNCHANGED error
    /\ UNCHANGED <<dataset, df, X_train, X_test, trainerPipeline>>
    /\ UNCHANGED <<diskVars, predictVars, calcVars, textVars, mineVars, buildVars, inferVars>>

\* train: self.save_artifacts(pipeline, metrics)
SaveArtifacts ==
    /\ pc = "Evaluated"
    /\ artifact' = trainerPipeline
    /\ report' = metrics
    /\ pc' = "Persisted"
    /\ UNCHANGED <<dataset, df, X_train, X_test, trainerPipeline, metrics, error>>
    /\ UNCHANGED <<predictVars, calcVars, textVars, mineVars, buildVars, inferVars>>

\* predictor = ReliabilityPredictor()
Construct ==
    /\ constructions < MaxConstructions
    /\ constructions' = constructions + 1
    /\ LET made == ReliabilityPredictor(artifact, constructions + 1)
       IN  /\ ctorError' = made.raised
           /\ predictor' = IF made.raised = "" THEN made.self ELSE predictor
    /\ UNCHANGED <<lastResult, trainVars, diskVars, calcVars, textVars, mineVars, buildVars, inferVars>>

\* predictor.predict(record)
Predict ==
    /\ predictor # <<>>
    /\ \E record \in Records : lastResult' = predict(predictor, record)
    /\ predictor' = SelfAfterCall(predictor, artifact)
    /\ UNCHANGED <<ctorError, constructions>>
    /\ UNCHANGED <<trainVars, diskVars, calcVars, textVars, mineVars, buildVars, inferVars>>

\* predictor.compare(record_a, record_b)
Compare ==
    /\ predictor # <<>>
    /\ \E record_a, record_b \in Records :
            lastResult' = compare(predictor, record_a, record_b)
    /\ predictor' = SelfAfterCall(predictor, artifact)
    /\ UNCHANGED <<ctorError, constructions>>
    /\ UNCHANGED <<trainVars, diskVars, calcVars, textVars, mineVars, buildVars, inferVars>>

TrainNext == LoadDataset \/ SplitData \/ Fit \/ Evaluate \/ SaveArtifacts

ServeNext == TrainNext \/ Construct \/ Predict \/ Compare

SpecServe == ServeInit /\ [][ServeNext]_vars

(***************************************************************************)
(* predict.py: callers on two threads sharing one ReliabilityPredictor.    *)
(* A predict call is three steps, at each of which another thread may run: *)
(* it prepares its frame from the caller's record, scores the frame with   *)
(* the shared pipeline, and builds its result from its own frame.  A       *)
(* compare call is two predict calls, one after the other.                 *)
(***************************************************************************)
Threads == {"t1", "t2"}

RecordColumns ==
    {"make", "year", "maintenance_action", "maintenance_cost_last_year",
     "fuel_cost_last_year", "complaint_text"}

\* self.pipeline.predict_proba(frame)[0, 1]: the fitted pipeline reads the
\* columns of the record out of the frame and nothing else
predict_proba(pipeline, frame) == pipeline.proba[[c \in RecordColumns |-> frame[c]]]

\* a _prepare_frame that engineers the caller's dict in place
RecordAfterCallInPlace(record, frame) == frame

\* the caller's dict after a predict call: pd.DataFrame(list(records)) and
\* df.copy() give the call a frame of its own, frame["risk_score"] = proba
\* writes to that frame
RecordAfterCall(record, frame) == record

\* a compare that reads the first row of its frame for both cars
CompareRecordFirstRow(record_a, record_b, k) == record_a

\* the record compare hands to its k-th predict call
CompareRecord(record_a, record_b, k) == IF k = 1 THEN record_a ELSE record_b

\* a thread that is in no call
NoCall ==
    [op |-> "none", pc |-> "idle", args |-> <<>>, k |-> 0,
     frame |-> <<>>, proba |-> 0, band |-> "", out |-> <<>>]

\* the record of the predict call the thread is in
CurrentRecord(call) ==
    IF call.op = "compare" THEN CompareRecord(call.args[1], call.args[2], call.k)
    ELSE call.args[1]

\* an engine constructed from a fitted pipeline on disk
FittedArtifacts == {[run |-> 0, fittedOn |-> {}, proba |-> f] : f \in ProbaFunctions}

InferInit ==
    /\ CalcIdle
    /\ TextIdle
    /\ MineIdle
    /\ BuildIdle
    /\ dataset = <<>> /\ pc = "Unloaded" /\ df = <<>> /\ X_train = {} /\ X_test = {}
    /\ trainerPipeline = <<>> /\ metrics = <<>> /\ error = ""
    /\ artifact \in FittedArtifacts
    /\ report = [run |-> 0, evaluatedOn |-> {}]
    /\ predictor = ReliabilityPredictor(artifact, 1).self
    /\ ctorError = "" /\ constructions = 1 /\ lastResult = <<>>
    /\ held = [r \in Records |-> r]
    /\ calls = [t \in Threads |-> NoCall]
    /\ returned = [r \in Records |-> {}]
    /\ compared = {}

\* a thread calls predictor.predict(record) or predictor.compare(record_a, record_b)
Call(t) ==
    /\ calls[t].pc = "idle"
    /\ \E op \in {"predict", "compare"}, a, b \in Records :
            /\ op = "predict" => b = a
            /\ calls' = [calls EXCEPT ![t] =
                    [NoCall EXCEPT !.op = op, !.pc = "prepare", !.k = 1,
                                   !.args = IF op = "predict" THEN <<a>> ELSE <<a, b>>]]
    /\ UNCHANGED <<held, returned, compared, serveVars, calcVars, textVars, mineVars, buildVars>>

\* predict: frame = self._prepare_frame([record])
PrepareFrame(t) ==
    /\ calls[t].pc = "prepare"
    /\ calls' = [calls EXCEPT ![t].frame = _prepare_frame(held[CurrentRecord(calls[t])]),
                              ![t].pc = "score"]
    /\ UNCHANGED <<held, returned, compared, serveVars, calcVars, textVars, mineVars, buildVars>>

\* predict: proba = ...predict_proba(frame)...; risk_band; frame["risk_score"] = proba
Score(t) ==
    /\ calls[t].pc = "score"
    /\ LET proba == predict_proba(predictor.pipeline, calls[t].frame)
       IN  calls' = [calls EXCEPT ![t].proba = proba,
                                  ![t].band = _to_risk_band(proba),
                                  ![t].frame = [risk_score |-> proba] @@ @,
                                  ![t].pc = "project"]
    /\ predictor' = SelfAfterCall(predictor, artifact)
    /\ UNCHANGED <<held, returned, compared, ctorError, constructions, lastResult>>
    /\ UNCHANGED <<trainVars, diskVars, calcVars, textVars, mineVars, buildVars>>

\* predict: cost_projection, maintenance_timeline, return PredictionResult(...);
\* in compare, the return of the dict after the second predict
Project(t) ==
    /\ calls[t].pc = "project"
    /\ LET call == calls[t]
           record == CurrentRecord(call)
           result == [probability |-> call.proba,
                      risk_band |-> call.band,
                      cost_projection |-> compute_cost_of_ownership(call.frame),
                      maintenance_timeline |-> generate_maintenance_timeline(call.frame)]
           out == Append(call.out, result)
       IN  /\ held' = [held EXCEPT ![record] = RecordAfterCall(@, call.frame)]
           /\ returned' = [returned EXCEPT ![record] = @ \cup {result}]
           /\ IF call.op = "compare" /\ call.k = 1
                THEN /\ calls' = [calls EXCEPT ![t] =
                            [call EXCEPT !.k = 2, !.pc = "prepare", !.out = out,
                                         !.frame = <<>>, !.proba = 0, !.band = ""]]
                     /\ UNCHANGED compared
                ELSE /\ calls' = [calls EXCEPT ![t] = NoCall]
                     /\ compared' =
                            IF call.op = "compare"
                            THEN compared \cup
                                    {[record_a |-> call.args[1], record_b |-> call.args[2],
                                      result |-> [car_a |-> out[1], car_b |-> out[2]]]}
                            ELSE compared
    /\ UNCHANGED <<serveVars, calcVars, textVars, mineVars, buildVars>>

InferNext == \E t \in Threads : Call(t) \/ PrepareFrame(t) \/ Score(t) \/ Project(t)

SpecInfer == InferInit /\ [][InferNext]_vars

(***************************************************************************)
(* Claims about the pure functions, checked under SpecCalc.                *)
(***************************************************************************)

\* how far ahead a timeframe lies, in days (a month counted as 30 days)
TimeframeDays(tf) == IF tf.unit = "months" THEN 30 * tf.n ELSE tf.n

\* C1: the milestones returned by generate_maintenance_timeline are ordered
\* nearest-first: the timeframes of consecutive milestones strictly increase,
\* the "Next 30 days" specialist milestone included.
C1_NearestFirst ==
    "timeline" \in called =>
        \A i \in 1..(Len(timeline) - 1) :
            TimeframeDays(timeline[i].timeframe) < TimeframeDays(timeline[i + 1].timeframe)

\* C2: total_projection equals the sum of the three returned (rounded)
\* figures, to the cent.
C2_TotalIsSumOfParts ==
    "cost" \in called =>
        cost.total_projection =
            cost.maintenance_projection + cost.fuel_cost_projection + cost.depreciation_estimate

\* base * (1 + 0.35 * risk) rounded to cents, for base in whole units and risk
\* in hundredths: base * (10000 + 35 * risk) is the amount in 1/10000 units.
\* The cent nearest to it; both neighbours at an exact half-cent.
NearestCents(base, risk) ==
    LET x == base * (10000 + 35 * risk)
    IN  {c \in {x \div 100, x \div 100 + 1} : 2 * (100 * c - x) \in -100..100}

TableBase(r) ==
    IF "maintenance_action" \notin DOMAIN r THEN 150
    ELSE CASE r["maintenance_action"] = "oil change" -> 120
           [] r["maintenance_action"] = "brake pad replacement" -> 380
           [] r["maintenance_action"] = "software update" -> 160
           [] r["maintenance_action"] = "battery inspection" -> 90
           [] r["maintenance_action"] = "tire rotation" -> 75
           [] OTHER -> 150

RiskOf(r) == IF "risk_score" \in DOMAIN r THEN r["risk_score"] ELSE 20

\* C3 as stated: maintenance_projection is the table's base estimate (150 for
\* an action not in the table) times (1 + 0.35 * risk_score), rounded to two
\* decimals, and no other field of the record contributes.
C3_BaseTimesMultiplier ==
    "cost" \in called =>
        cost.maintenance_projection \in NearestCents(TableBase(row), RiskOf(row))

\* C3 amended: maintenance_projection is the prior-year maintenance cost (600
\* when the record has none) plus the table's base estimate (150 for an action
\* not in the table), times (1 + 0.35 * risk_score), rounded to two decimals.
C3_PriorCostPlusBaseTimesMultiplier ==
    "cost" \in called =>
        cost.maintenance_projection \in
            NearestCents(
                (IF "maintenance_cost_last_year" \in DOMAIN row
                    THEN row["maintenance_cost_last_year"] ELSE 600) + TableBase(row),
                RiskOf(row))

C3_Witness ==
    /\ "cost" \in called
    /\ "maintenance_cost_last_year" \in DOMAIN row
    /\ row["maintenance_cost_last_year"] > 0
    /\ "maintenance_action" \in DOMAIN row
    /\ row["maintenance_action"] = "brake pad replacement"
    /\ "risk_score" \in DOMAIN row
    /\ row["risk_score"] = 70
    /\ cost.maintenance_projection \notin NearestCents(380, 70)

\* C7: for every probability, _to_risk_band returns High iff p >= 0.65,
\* Moderate iff 0.40 <= p < 0.65, Low iff p < 0.40; exactly one band is returned.
C7_RiskBandThresholds ==
    "band" \in called =>
        LET p == row["risk_score"]
        IN  /\ band \in {"High", "Moderate", "Low"}
            /\ band = "High" <=> p >= 65
            /\ band = "Moderate" <=> (40 <= p /\ p < 65)
            /\ band = "Low" <=> p < 40

C7_Witness ==
    /\ "band" \in called
    /\ row["risk_score"] \in {40, 65}
    /\ (row["risk_score"] = 65 => band = "High")
    /\ (row["risk_score"] = 40 => band = "Moderate")

(***************************************************************************)
(* Claims about the sentiment scorer, checked under SpecText.              *)
(***************************************************************************)

\* the scorer of the specification: tokens split on blanks, lower-cased,
\* trailing . , ! ? stripped, each occurrence counted
ReferenceScore(t) ==
    LET tokens == Split(t)
        hit(lexicon) ==
            Cardinality({i \in DOMAIN tokens :
                            InLexicon(Lower(RStrip(tokens[i], {".", ",", "!", "?"})), lexicon)})
    IN  [positive |-> hit(POSITIVE_WORDS), negative |-> hit(NEGATIVE_WORDS),
         net |-> hit(POSITIVE_WORDS) - hit(NEGATIVE_WORDS)]

\* C4: for every text, score_text returns the (positive, negative, net) of the
\* reference scorer: every occurrence of a lexicon word counts, only trailing
\* punctuation is stripped.
C4_MatchesReferenceScorer ==
    sentiment # <<>> => sentiment = ReferenceScore(text)

(***************************************************************************)
(* Claims about the complaint pattern miner, checked under SpecMine.       *)
(***************************************************************************)

\* the phrase ph (a run of 2 or 3 kept words) appears in document d
AppearsIn(ph, d) ==
    LET kept == DropStopWords(d)
    IN  \E i \in 1..Len(kept) :
            i + Len(ph) - 1 <= Len(kept) /\ SubSeq(kept, i, i + Len(ph) - 1) = ph

\* no 2- or 3-word phrase appears in two documents of the corpus
NoSharedPhrase(docs) ==
    \A i, j \in DOMAIN docs :
        i # j => \A ph \in Phrases(docs[i]) : ~AppearsIn(ph, docs[j])

\* C5: identify_common_failure_patterns returns an empty list, and does not
\* raise, when the corpus is empty and when it is non-empty but no 2- or
\* 3-word phrase appears in at least 2 documents.
C5_EmptyResultWithoutRaising ==
    (mined # <<>> /\ NoSharedPhrase(corpus)) =>
        (mined.raised = "" /\ mined.value = <<>>)

(***************************************************************************)
(* Claims about the feature transform builder, checked under SpecBuild.    *)
(***************************************************************************)

\* the names a configuration gives for a group (none when the group is missing)
GroupNames(cfg, group) ==
    IF group \notin DOMAIN cfg THEN {}
    ELSE IF group = "text_feature" THEN {cfg[group]} ELSE cfg[group]

\* a column name is in more than one group
GroupsOverlap(cfg) ==
    \E g, h \in {"numeric_features", "categorical_features", "text_feature"} :
        g # h /\ GroupNames(cfg, g) \cap GroupNames(cfg, h) # {}

\* the declaration lacks a group
GroupMissing(cfg) ==
    \E g \in {"numeric_features", "categorical_features", "text_feature"} : g \notin DOMAIN cfg

\* C6: building a feature transform from a configuration whose groups overlap
\* or whose declaration is missing a group is a fatal error: no transformer is
\* ever returned for such a configuration.
C6_BadConfigurationIsFatal ==
    (transformer # <<>> /\ (GroupsOverlap(config) \/ GroupMissing(config))) =>
        transformer.raised # ""

(***************************************************************************)
(* Claims about the training protocol and the inference engine, checked    *)
(* under SpecServe.                                                        *)
(***************************************************************************)

\* the state that follows st in the protocol
Successor(st) ==
    CASE st = "Unloaded" -> "Loaded"
      [] st = "Loaded" -> "Split"
      [] st = "Split" -> "Fitted"
      [] st = "Fitted" -> "Evaluated"
      [] st = "Evaluated" -> "Persisted"
      [] OTHER -> "none"

\* the artifact and the report on disk were written by this run
WrittenByThisRun(file) == file # <<>> /\ file.run = 1

\* a step changes the protocol state only to its successor, or aborts a run
\* that has not ended; the disk is written only by the step into Persisted
OrderedStep ==
    /\ pc' # pc => (pc' = Successor(pc) \/ (pc' = "Aborted" /\ pc \notin {"Persisted", "Aborted"}))
    /\ (artifact' # artifact \/ report' # report) => (pc = "Evaluated" /\ pc' = "Persisted")

\* what each protocol state has used: the fit the training partition only, the
\* evaluation the holdout partition only, the files the evaluated pipeline
PartitionsRespected ==
    /\ pc \in {"Split", "Fitted", "Evaluated", "Persisted"} =>
            (X_train \cap X_test = {} /\ X_train \cup X_test = df.rows)
    /\ pc \in {"Fitted", "Evaluated", "Persisted"} =>
            (trainerPipeline.fittedOn = X_train /\ trainerPipeline.fittedOn \cap X_test = {})
    /\ pc \in {"Evaluated", "Persisted"} => metrics.evaluatedOn = X_test
    /\ pc \in {"Unloaded", "Loaded", "Split"} => (trainerPipeline = <<>> /\ metrics = <<>>)
    /\ pc = "Fitted" => metrics = <<>>
    /\ (WrittenByThisRun(artifact) \/ WrittenByThisRun(report)) =>
            (pc = "Persisted" /\ artifact = trainerPipeline /\ report = metrics)

\* C8: train passes through Unloaded, Loaded, Split, Fitted, Evaluated,
\* Persisted in that order, no state skipped or revisited; the pipeline is
\* fitted on the training partition only, the holdout partition is used for
\* the evaluation only, and the artifact and the metrics are persisted only
\* after the evaluation.
C8_ProtocolOrder == [](PartitionsRespected) /\ [][OrderedStep]_vars

C8_Witness ==
    /\ pc = "Persisted"
    /\ X_test # {}
    /\ trainerPipeline.fittedOn = X_train
    /\ artifact = trainerPipeline

DatasetMissing == ~dataset.exists
DatasetEmpty == dataset.exists /\ dataset.labels = <<>>

\* a column the feature configuration names is absent from the engineered frame
ConfigColumnAbsent ==
    /\ dataset.exists
    /\ \E c \in DEFAULT_FEATURE_CONFIG.numeric_features
                \cup DEFAULT_FEATURE_CONFIG.categorical_features
                \cup {DEFAULT_FEATURE_CONFIG.text_feature} :
            c \notin dataset.columns \cup EngineeredColumns

\* C9: with the dataset missing or empty, or a column of the feature
\* configuration absent from the engineered frame, train ends in an error and
\* never reaches Persisted; the run writes no artifact and no metrics report;
\* for a missing or empty dataset no fit is started.
C9_BadDataAborts ==
    (DatasetMissing \/ DatasetEmpty \/ ConfigColumnAbsent) =>
        /\ pc \notin {"Fitted", "Evaluated", "Persisted"}
        /\ ~WrittenByThisRun(artifact) /\ ~WrittenByThisRun(report)
        /\ (pc = "Aborted" => error # "")
        /\ (~ENABLED TrainNext => pc = "Aborted")
        /\ (DatasetMissing \/ DatasetEmpty) =>
                (pc \in {"Unloaded", "Loaded", "Aborted"} /\ trainerPipeline = <<>>)

C9_Witness ==
    /\ ConfigColumnAbsent
    /\ "mileage" \notin dataset.columns
    /\ Len(dataset.labels) = 8
    /\ pc = "Aborted"
    /\ error = "ValueError: A given column is not a column of the dataframe"
    /\ artifact = EarlierArtifact

\* a ReliabilityPredictor() call: it starts no training and writes no file;
\* without an artifact it raises and constructs nothing, with one it loads it
ConstructStep ==
    constructions' # constructions =>
        /\ UNCHANGED <<trainVars, diskVars>>
        /\ artifact = <<>> =>
                (predictor' = predictor
                 /\ ctorError' = "FileNotFoundError: Model artifact missing. Train the model before predicting.")
        /\ artifact # <<>> =>
                (ctorError' = "" /\ predictor'.pipeline = artifact /\ predictor'.loads = 1)

\* every other step leaves the engine as it is, whatever happens on disk
NoReloadStep == constructions' = constructions => predictor' = predictor

\* an engine exists only if it loaded an artifact, once; none of the caller's
\* calls has run without one
EngineLoadedOnce ==
    /\ predictor # <<>> => (predictor.loads = 1 /\ predictor.pipeline # <<>>)
    /\ predictor = <<>> => lastResult = <<>>

\* C10: a ReliabilityPredictor is constructed only when the artifact exists;
\* when it is missing the construction fails telling the operator to train
\* first, no training is started and no predict or compare call can run; once
\* constructed the pipeline is loaded once and no later call reloads it, even
\* when a retraining replaces the artifact on disk.
C10_LoadedOnceAtConstruction ==
    [](EngineLoadedOnce) /\ [][ConstructStep /\ NoReloadStep]_vars

C10_Witness ==
    /\ predictor # <<>>
    /\ predictor.pipeline = EarlierArtifact
    /\ WrittenByThisRun(artifact)
    /\ lastResult # <<>>

(***************************************************************************)
(* Claims about the maintenance timeline, checked under SpecCalc.          *)
(***************************************************************************)

\* the risk score the timeline synthesizer reads from the row
TimelineRisk == Get(row, "risk_score", DefaultTimelineRisk)

\* max(3, 6 * (1 - 0.4 * clamp(risk, 0, 0.95))) in thousandths of a month
ClaimedIntervalMilliMonths(risk) ==
    Max(3000, 6 * (1000 - 4 * Min(Max(risk, 0), 95)))

\* C13: for every risk score the service interval of the three milestones
\* is max(3, 6 * (1 - 0.4 * clamp(risk, 0, 0.95))) months: the 6-month base
\* is never compressed by more than 40%, the interval is never below 3 or
\* above 6 months, and the three regular milestones are at 1, 2 and 3 times
\* the interval.
C13_IntervalFormula ==
    "timeline" \in called =>
        LET interval == timeline[1].timeframe.n * 1000
        IN  /\ timeline[1].timeframe.unit = "months"
            /\ interval = ClaimedIntervalMilliMonths(TimelineRisk)
            /\ 10 * (6000 - interval) <= 4 * 6000
            /\ interval >= 3000 /\ interval <= 6000
            /\ \A i \in 1..3 : timeline[i].timeframe = Months(i * timeline[1].timeframe.n)

IsSpecialist(milestone) ==
    milestone.action = "Schedule reliability assessment with specialist"

SpecialistMilestones == {i \in 1..Len(timeline) : IsSpecialist(timeline[i])}

\* C14: generate_maintenance_timeline returns exactly 4 milestones when
\* risk_score > 0.6 and exactly 3 otherwise (0.6 gives 3); the extra one is
\* the specialist assessment; within predict every High-band result has it
\* and no Low-band result has it.
C14_FourMilestonesAboveThreshold ==
    "timeline" \in called =>
        /\ Len(timeline) = IF TimelineRisk > 60 THEN 4 ELSE 3
        /\ Cardinality(SpecialistMilestones) = Len(timeline) - 3
        /\ \A i \in 1..Len(timeline) :
                IsSpecialist(timeline[i]) => timeline[i] = SpecialistMilestone
        /\ "band" \in called =>
                /\ band = "High" => SpecialistMilestones # {}
                /\ band = "Low" => SpecialistMilestones = {}

\* the timeline and the band of a probability at the High boundary
C14_Witness ==
    /\ {"timeline", "band"} \subseteq called
    /\ "risk_score" \in DOMAIN row /\ row["risk_score"] = 65
    /\ band = "High"
    /\ Len(timeline) = 4 /\ IsSpecialist(timeline[4])

(***************************************************************************)
(* Claims about calls that share one inference engine, checked under       *)
(* SpecInfer.                                                              *)
(***************************************************************************)

\* the engine is as its construction left it, the callers' records as the
\* callers made them
SharedStateUnchanged ==
    /\ predictor = ReliabilityPredictor(artifact, 1).self
    /\ \A r \in Records : held[r] = r

\* whatever calls ran before, between or beside them, the predict calls for
\* a record all returned the same PredictionResult
SameResultEveryTime ==
    \A r \in Records : \A x, y \in returned[r] :
        /\ x.probability = y.probability
        /\ x.risk_band = y.risk_band
        /\ x.cost_projection = y.cost_projection
        /\ x.maintenance_timeline = y.maintenance_timeline

\* C11: after any sequence or interleaving of predict and compare calls on
\* one ReliabilityPredictor the loaded pipeline and the callers' records are
\* unchanged, and two predict calls with the same record return identical
\* PredictionResults whatever other calls ran in between or concurrently.
C11_PredictIdempotent ==
    calls # <<>> => (SharedStateUnchanged /\ SameResultEveryTime)

\* two threads inside predict calls for a record that already has a result
C11_Witness ==
    /\ calls # <<>>
    /\ \E r \in Records :
        /\ returned[r] # {}
        /\ calls["t1"].op = "predict" /\ calls["t1"].pc = "project" /\ calls["t1"].args = <<r>>
        /\ calls["t2"].op = "compare" /\ calls["t2"].pc = "score" /\ calls["t2"].k = 2
        /\ calls["t2"].args[2] = r

\* what a compare call returned is the two single-record predictions
TwoIndependentPredictions(x) ==
    /\ x.result.car_a = predict(predictor, x.record_a)
    /\ x.result.car_b = predict(predictor, x.record_b)
    /\ x.result.car_a \in returned[x.record_a]
    /\ x.result.car_b \in returned[x.record_b]

\* C12: for every pair of records a and b, compare(a, b) returns exactly
\* {car_a: predict(a), car_b: predict(b)}; the result for car_a does not
\* depend on b and the result for car_b does not depend on a.
C12_CompareIsTwoPredicts ==
    /\ \A x \in compared : TwoIndependentPredictions(x)
    /\ \A x, y \in compared :
        /\ x.record_a = y.record_a => x.result.car_a = y.result.car_a
        /\ x.record_b = y.record_b => x.result.car_b = y.result.car_b

\* two compare calls returned with the same first record and different
\* second records, whose predictions differ
C12_Witness ==
    \E x, y \in compared :
        /\ x.record_a = y.record_a
        /\ x.record_b # y.record_b
        /\ x.result.car_b # y.result.car_b
        /\ x.result.car_a # x.result.car_b

====
